---------------------------- MODULE Spec2Model ----------------------------
(***************************************************************************)
(* CHIP-8 virtual machine of heydabop/chip8 (src/src/chip8.rs) and the     *)
(* part of its host loop (src/src/main.rs) that drives it.                 *)
(*                                                                         *)
(* The VM is a struct of arrays and counters; one call of emulate_cycle    *)
(* fetches a 16-bit opcode, dispatches on its top nibble and then does     *)
(* the timer bookkeeping.  Each handler is an operator from VM records to  *)
(* VM records; a Rust panic is the record with a status other than         *)
(* "running".  Unannotated integer arithmetic panics when the build has    *)
(* overflow checks (debug profile) and wraps otherwise (release profile).  *)
(***************************************************************************)
EXTENDS Integers, Sequences, FiniteSets, TLC

(***************************************************************************)
(* Program constants                                                       *)
(***************************************************************************)
MemSize == 4096

NumRegs == 16

StackSize == 16

NumKeys == 16

GfxWidth == 64

GfxHeight == 32

GfxSize == GfxWidth * GfxHeight

ProgramStart == 512

FontBytes == 80

TickDivisor == 5

KeyScanEnd == 15

U8 == 256

U16 == 65536

FlagReg == 15

(***************************************************************************)
(* Bit-field helpers (opcode decoding is shifts and masks in the source)   *)
(***************************************************************************)
Pow2(k) == 2 ^ k

\* (w >> k) & 1
Bit(w, k) == (w \div Pow2(k)) % 2

\* (opcode & 0xF000) >> 12
TopNibble(op) == op \div 4096

\* (opcode & 0xF00) >> 8
FieldX(op) == (op \div 256) % 16

\* (opcode & 0xF0) >> 4
FieldY(op) == (op \div 16) % 16

\* opcode & 0xF
FieldN(op) == op % 16

\* opcode & 0xFF
FieldNN(op) == op % 256

\* opcode & 0xFFF
FieldNNN(op) == op % 4096

RECURSIVE BitAnd(_, _)
BitAnd(a, b) ==
    IF a = 0 \/ b = 0 THEN 0
    ELSE (a % 2) * (b % 2) + 2 * BitAnd(a \div 2, b \div 2)

RECURSIVE BitOr(_, _)
BitOr(a, b) ==
    IF a = 0 THEN b
    ELSE IF b = 0 THEN a
    ELSE (IF a % 2 = 1 \/ b % 2 = 1 THEN 1 ELSE 0) + 2 * BitOr(a \div 2, b \div 2)

RECURSIVE BitXor(_, _)
BitXor(a, b) ==
    IF a = 0 THEN b
    ELSE IF b = 0 THEN a
    ELSE ((a + b) % 2) + 2 * BitXor(a \div 2, b \div 2)

(***************************************************************************)
(* The built-in font table, chip8_fontset                                  *)
(***************************************************************************)
chip8_fontset ==
    << 240, 144, 144, 144, 240,
        32,  96,  32,  32, 112,
       240,  16, 240, 128, 240,
       240,  16, 240,  16, 240,
       144, 144, 240,  16,  16,
       240, 128, 240,  16, 240,
       240, 128, 240, 144, 240,
       240,  16,  32,  64,  64,
       240, 144, 240, 144, 240,
       240, 144, 240,  16, 240,
       240, 144, 240, 144, 144,
       224, 144, 224, 144, 224,
       240, 128, 128, 128, 240,
       224, 144, 144, 144, 224,
       240, 128, 240, 128, 240,
       240, 128, 240, 128, 128 >>

(***************************************************************************)
(* State                                                                   *)
(***************************************************************************)
VARIABLES
    opcode,           \* current opcode
    memory,           \* [0..4095 -> u8]
    v,                \* registers V0..VF, [0..15 -> u8]
    i,                \* address register, u16
    pc,               \* program counter, u16
    gfx,              \* framebuffer, [0..2047 -> u8]
    delay_timer,
    sound_timer,
    stack,            \* [0..15 -> u16]
    sp,               \* stack pointer, u16
    key,              \* keypad, [0..15 -> u8]
    draw_flag,
    timer_tick,
    status,           \* "constructed", "running", or the panic that ended the run
    overflow_checks,  \* build profile: TRUE when integer overflow panics
    delay_watch,      \* observer: cycles run since FX15 last armed the delay timer
    prev_draw,        \* observer: the preceding cycle, when it was a draw
    call_trace,       \* observer: addresses of the calls not yet returned from
    dump_watch,       \* observer: the registers FX55 last stored, while still in memory
    canvas            \* host: the cells painted white in the image main() last presented

vmvars == << opcode, memory, v, i, pc, gfx, delay_timer, sound_timer, stack, sp,
             key, draw_flag, timer_tick, status >>

vars == << opcode, memory, v, i, pc, gfx, delay_timer, sound_timer, stack, sp,
           key, draw_flag, timer_tick, status, overflow_checks, delay_watch,
           prev_draw, call_trace, dump_watch, canvas >>

\* The VM as one record, the argument of every handler.
VM ==
    [ opcode |-> opcode, memory |-> memory, v |-> v, i |-> i, pc |-> pc,
      gfx |-> gfx, delay_timer |-> delay_timer, sound_timer |-> sound_timer,
      stack |-> stack, sp |-> sp, key |-> key, draw_flag |-> draw_flag,
      timer_tick |-> timer_tick, status |-> status, checks |-> overflow_checks ]

Running(s) == s.status = "running"

\* panic!(...) or a failed bounds / overflow check: the run ends here.
Panic(s, why) == [s EXCEPT !.status = why]

(***************************************************************************)
(* Integer arithmetic of fixed width.  `+=`, `-=` and `+` on u8 / u16 are  *)
(* unannotated in the source: the result panics on overflow when the build *)
(* checks overflow and wraps modulo the width when it does not.            *)
(***************************************************************************)
Wrap(val, width) == (val + width) % width

Fits(val, width) == val >= 0 /\ val < width

\* self.pc = val, val the result of u16 arithmetic
SetPc(s, val) ==
    IF Fits(val, U16) THEN [s EXCEPT !.pc = val]
    ELSE IF s.checks THEN Panic(s, "arith_overflow")
    ELSE [s EXCEPT !.pc = Wrap(val, U16)]

\* self.v[x] = val, val the result of u8 arithmetic
SetReg(s, x, val) ==
    IF Fits(val, U8) THEN [s EXCEPT !.v[x] = val]
    ELSE IF s.checks THEN Panic(s, "arith_overflow")
    ELSE [s EXCEPT !.v[x] = Wrap(val, U8)]

\* self.i = val, val the result of u16 arithmetic
SetI(s, val) ==
    IF Fits(val, U16) THEN [s EXCEPT !.i = val]
    ELSE IF s.checks THEN Panic(s, "arith_overflow")
    ELSE [s EXCEPT !.i = Wrap(val, U16)]

\* self.pc += k, the statement that ends most handlers
AdvancePc(s, k) == IF Running(s) THEN SetPc(s, s.pc + k) ELSE s

(***************************************************************************)
(* Handlers, one per entry of opcode_fns                                   *)
(***************************************************************************)
\* 00E0 clear screen, 00EE return from subroutine
cls_ret(s) ==
    IF FieldNN(s.opcode) = 224 THEN
        AdvancePc([s EXCEPT !.gfx = [c \in 0..(GfxSize - 1) |-> 0]], 2)
    ELSE IF FieldNN(s.opcode) = 238 THEN
        IF s.sp < 1 THEN Panic(s, "stack_underflow")
        ELSE LET top == s.sp - 1
                 s1 == SetPc([s EXCEPT !.sp = top], s.stack[top] + 2)
             IN  IF Running(s1) THEN [s1 EXCEPT !.stack[top] = 0] ELSE s1
    ELSE Panic(s, "unhandled_opcode")

\* 1NNN jump to NNN
jmp(s) == [s EXCEPT !.pc = FieldNNN(s.opcode)]

\* A call that stores the address of the instruction after the call.
call_push_next(s) ==
    IF s.sp >= StackSize THEN Panic(s, "oob_stack")
    ELSE [s EXCEPT !.stack[s.sp] = s.pc + 2, !.sp = s.sp + 1,
                   !.pc = FieldNNN(s.opcode)]

\* 2NNN call subroutine at NNN
call(s) ==
    IF s.sp >= StackSize THEN Panic(s, "oob_stack")
    ELSE [s EXCEPT !.stack[s.sp] = s.pc, !.sp = s.sp + 1, !.pc = FieldNNN(s.opcode)]

\* 3XNN skip if VX == NN
eb(s) ==
    AdvancePc(s, IF s.v[FieldX(s.opcode)] = FieldNN(s.opcode) THEN 4 ELSE 2)

\* A skip-if-not-equal with the comparison of skip-if-equal.
neb_skip_if_equal(s) ==
    AdvancePc(s, IF s.v[FieldX(s.opcode)] = FieldNN(s.opcode) THEN 4 ELSE 2)

\* 4XNN skip if VX != NN
neb(s) ==
    AdvancePc(s, IF s.v[FieldX(s.opcode)] # FieldNN(s.opcode) THEN 4 ELSE 2)

\* 5XY0 skip if VX == VY (the low nibble is not decoded)
er(s) ==
    AdvancePc(s, IF s.v[FieldX(s.opcode)] = s.v[FieldY(s.opcode)] THEN 4 ELSE 2)

\* A load that forgets the closing self.pc += 2.
ld_no_advance(s) == [s EXCEPT !.v[FieldX(s.opcode)] = FieldNN(s.opcode)]

\* 6XNN set VX to NN
ld(s) == AdvancePc([s EXCEPT !.v[FieldX(s.opcode)] = FieldNN(s.opcode)], 2)

\* 7XNN add NN to VX
addb(s) ==
    LET x == FieldX(s.opcode)
    IN  AdvancePc(SetReg(s, x, s.v[x] + FieldNN(s.opcode)), 2)

\* 8XY4: the flag is written first, the sum is formed from the registers after it
alu_add(s, x, y) ==
    LET flag == IF s.v[y] > 255 - s.v[x] THEN 1 ELSE 0
        s1 == [s EXCEPT !.v[FlagReg] = flag]
    IN  SetReg(s1, x, s1.v[x] + s1.v[y])

\* 8XY5: the flag is written first, the difference is formed after it
alu_sub(s, x, y) ==
    LET flag == IF s.v[y] > s.v[x] THEN 0 ELSE 1
        s1 == [s EXCEPT !.v[FlagReg] = flag]
    IN  SetReg(s1, x, s1.v[x] - s1.v[y])

\* 8XY7
alu_subn(s, x, y) ==
    LET flag == IF s.v[x] > s.v[y] THEN 0 ELSE 1
        s1 == [s EXCEPT !.v[FlagReg] = flag]
    IN  SetReg(s1, x, s1.v[y] - s1.v[x])

\* 8XY6
alu_shr(s, x) ==
    LET s1 == [s EXCEPT !.v[FlagReg] = s.v[x] % 2]
    IN  [s1 EXCEPT !.v[x] = s1.v[x] \div 2]

\* 8XYE (a shift discards the high bit, it is not an overflow)
alu_shl(s, x) ==
    LET s1 == [s EXCEPT !.v[FlagReg] = Bit(s.v[x], 7)]
    IN  [s1 EXCEPT !.v[x] = (s1.v[x] * 2) % U8]

\* 8XY*
alu(s) ==
    LET x == FieldX(s.opcode)
        y == FieldY(s.opcode)
        n == FieldN(s.opcode)
        r == CASE n = 0 -> [s EXCEPT !.v[x] = s.v[y]]
               [] n = 1 -> [s EXCEPT !.v[x] = BitOr(s.v[x], s.v[y])]
               [] n = 2 -> [s EXCEPT !.v[x] = BitAnd(s.v[x], s.v[y])]
               [] n = 3 -> [s EXCEPT !.v[x] = BitXor(s.v[x], s.v[y])]
               [] n = 4 -> alu_add(s, x, y)
               [] n = 5 -> alu_sub(s, x, y)
               [] n = 6 -> alu_shr(s, x)
               [] n = 7 -> alu_subn(s, x, y)
               [] n = 14 -> alu_shl(s, x)
               [] OTHER -> Panic(s, "unhandled_opcode")
    IN  AdvancePc(r, 2)

\* 9XY0 skip if VX != VY (the low nibble is not decoded)
ner(s) ==
    AdvancePc(s, IF s.v[FieldX(s.opcode)] # s.v[FieldY(s.opcode)] THEN 4 ELSE 2)

\* ANNN set I to NNN
si(s) == AdvancePc([s EXCEPT !.i = FieldNNN(s.opcode)], 2)

\* BNNN jump to NNN + V0
jmpo(s) == SetPc(s, FieldNNN(s.opcode) + s.v[0])

\* CXNN set VX = random byte & NN; r is the byte gen_range(0, 256) returned
rng(s, r) ==
    AdvancePc([s EXCEPT !.v[FieldX(s.opcode)] = BitAnd(FieldNN(s.opcode), r)], 2)

\* An offset whose column is not wrapped at the right edge.
gfx_offset_no_wrap(vx, vy, row, p) ==
    (GfxWidth * ((vy + row) % GfxHeight)) + (vx + p)

\* let gfx_offset = 64 * ((vy + row) % 32) + (vx + p) % 64
gfx_offset(vx, vy, row, p) ==
    (GfxWidth * ((vy + row) % GfxHeight)) + ((vx + p) % GfxWidth)

\* A pixel store that sets instead of toggling (OR in place of XOR).
toggle_pixel_or(s, off) ==
    IF s.gfx[off] = 1 THEN [s EXCEPT !.v[FlagReg] = 1]
    ELSE [s EXCEPT !.gfx[off] = 1]

\* self.gfx[gfx_offset] = if self.gfx[gfx_offset] == 1 { self.v[0xF] = 1; 0 } else { 1 }
toggle_pixel(s, off) ==
    IF s.gfx[off] = 1 THEN [s EXCEPT !.gfx[off] = 0, !.v[FlagReg] = 1]
    ELSE [s EXCEPT !.gfx[off] = 1]

\* for p in 0..8 { if pixel & (0x80 >> p) != 0 { ... } }, from p on
RECURSIVE draw_row(_, _, _, _, _, _)
draw_row(s, pixel, vx, vy, row, p) ==
    IF p >= 8 \/ ~Running(s) THEN s
    ELSE IF Bit(pixel, 7 - p) = 0 THEN draw_row(s, pixel, vx, vy, row, p + 1)
    ELSE LET off == gfx_offset(vx, vy, row, p)
         IN  IF off >= GfxSize THEN Panic(s, "oob_gfx")
             ELSE draw_row(toggle_pixel(s, off), pixel, vx, vy, row, p + 1)

\* for row in 0..height { let pixel = self.memory[i + row]; ... }, from row on
RECURSIVE draw_loop(_, _, _, _, _)
draw_loop(s, vx, vy, height, row) ==
    IF row >= height \/ ~Running(s) THEN s
    ELSE IF s.i + row >= MemSize THEN Panic(s, "oob_memory")
    ELSE draw_loop(draw_row(s, s.memory[s.i + row], vx, vy, row, 0),
                   vx, vy, height, row + 1)

\* A draw that does not reset VF before the loop.
draw_keep_flag(s) ==
    LET vx == s.v[FieldX(s.opcode)]
        vy == s.v[FieldY(s.opcode)]
        s1 == draw_loop(s, vx, vy, FieldN(s.opcode), 0)
    IN  IF Running(s1) THEN AdvancePc([s1 EXCEPT !.draw_flag = TRUE], 2) ELSE s1

\* DXYN draw a sprite at VX,VY, 8 pixels wide and N pixels high, from memory at I
draw(s) ==
    LET vx == s.v[FieldX(s.opcode)]
        vy == s.v[FieldY(s.opcode)]
        s1 == draw_loop([s EXCEPT !.v[FlagReg] = 0], vx, vy, FieldN(s.opcode), 0)
    IN  IF Running(s1) THEN AdvancePc([s1 EXCEPT !.draw_flag = TRUE], 2) ELSE s1

\* EX9E / EXA1 skip on the key named by VX; the key is read before the match
key_skip(s) ==
    LET vx == s.v[FieldX(s.opcode)]
    IN  IF vx >= NumKeys THEN Panic(s, "oob_key")
        ELSE LET pressed == s.key[vx] = 1
             IN  IF FieldNN(s.opcode) = 158 THEN AdvancePc(s, IF pressed THEN 4 ELSE 2)
                 ELSE IF FieldNN(s.opcode) = 161 THEN AdvancePc(s, IF ~pressed THEN 4 ELSE 2)
                 ELSE Panic(s, "unhandled_opcode")

\* for i in 0..0xF: the keys the scan of FX0A visits
scanned_keys == 0..(KeyScanEnd - 1)

\* A wait that forgets to step PC back when no key is down.
wait_key_no_retry(s, x) ==
    LET down == {k \in scanned_keys : s.key[k] = 1}
    IN  IF down # {}
        THEN [s EXCEPT !.v[x] = CHOOSE k \in down : \A j \in down : k <= j]
        ELSE s

\* FX0A store next key press in VX, blocking instruction
wait_key(s, x) ==
    LET down == {k \in scanned_keys : s.key[k] = 1}
    IN  IF down # {}
        THEN [s EXCEPT !.v[x] = CHOOSE k \in down : \A j \in down : k <= j]
        ELSE SetPc(s, s.pc - 2)

\* A BCD store whose tens digit is not reduced modulo 10.
bcd_tens_unreduced(s, x) ==
    LET vx == s.v[x]
    IN  IF s.i + 2 >= MemSize THEN Panic(s, "oob_memory")
        ELSE [s EXCEPT !.memory[s.i] = vx \div 100,
                       !.memory[s.i + 1] = vx \div 10,
                       !.memory[s.i + 2] = (vx % 100) % 10]

\* FX33 store the BCD representation of VX at I, one indexed store after another
bcd(s, x) ==
    LET vx == s.v[x]
    IN  IF s.i >= MemSize THEN Panic(s, "oob_memory")
        ELSE IF s.i + 1 >= MemSize
        THEN Panic([s EXCEPT !.memory[s.i] = vx \div 100], "oob_memory")
        ELSE IF s.i + 2 >= MemSize
        THEN Panic([s EXCEPT !.memory[s.i] = vx \div 100,
                             !.memory[s.i + 1] = (vx \div 10) % 10], "oob_memory")
        ELSE [s EXCEPT !.memory[s.i] = vx \div 100,
                       !.memory[s.i + 1] = (vx \div 10) % 10,
                       !.memory[s.i + 2] = (vx % 100) % 10]

\* FX55 store V0 to VX (inclusive) in memory at I, from offset on
RECURSIVE reg_dump(_, _, _)
reg_dump(s, x, offset) ==
    IF offset > x THEN s
    ELSE IF s.i + offset >= MemSize THEN Panic(s, "oob_memory")
    ELSE reg_dump([s EXCEPT !.memory[s.i + offset] = s.v[offset]], x, offset + 1)

\* A load whose range excludes VX (0..x in place of 0..=x).
RECURSIVE reg_load_exclusive(_, _, _)
reg_load_exclusive(s, x, offset) ==
    IF offset >= x THEN s
    ELSE IF s.i + offset >= MemSize THEN Panic(s, "oob_memory")
    ELSE reg_load_exclusive([s EXCEPT !.v[offset] = s.memory[s.i + offset]],
                            x, offset + 1)

\* FX65 fill V0 to VX (inclusive) from memory at I, from offset on
RECURSIVE reg_load(_, _, _)
reg_load(s, x, offset) ==
    IF offset > x THEN s
    ELSE IF s.i + offset >= MemSize THEN Panic(s, "oob_memory")
    ELSE reg_load([s EXCEPT !.v[offset] = s.memory[s.i + offset]], x, offset + 1)

\* FX**
ex(s) ==
    LET x == FieldX(s.opcode)
        nn == FieldNN(s.opcode)
        r == CASE nn = 7 -> [s EXCEPT !.v[x] = s.delay_timer]
               [] nn = 10 -> wait_key(s, x)
               [] nn = 21 -> [s EXCEPT !.delay_timer = s.v[x]]
               [] nn = 24 -> [s EXCEPT !.sound_timer = s.v[x]]
               [] nn = 30 -> SetI(s, s.i + s.v[x])
               [] nn = 41 -> [s EXCEPT !.i = 5 * s.v[x]]
               [] nn = 51 -> bcd(s, x)
               [] nn = 85 -> reg_dump(s, x, 0)
               [] nn = 101 -> reg_load(s, x, 0)
               [] OTHER -> Panic(s, "unhandled_opcode")
    IN  AdvancePc(r, 2)

\* self.opcode_fns[top nibble](self)
dispatch(s, r) ==
    LET f == TopNibble(s.opcode)
    IN  CASE f = 0 -> cls_ret(s)
          [] f = 1 -> jmp(s)
          [] f = 2 -> call(s)
          [] f = 3 -> eb(s)
          [] f = 4 -> neb(s)
          [] f = 5 -> er(s)
          [] f = 6 -> ld(s)
          [] f = 7 -> addb(s)
          [] f = 8 -> alu(s)
          [] f = 9 -> ner(s)
          [] f = 10 -> si(s)
          [] f = 11 -> jmpo(s)
          [] f = 12 -> rng(s, r)
          [] f = 13 -> draw(s)
          [] f = 14 -> key_skip(s)
          [] OTHER -> ex(s)

\* Bookkeeping that decrements without the > 0 tests, wrapping 0 to 255.
tick_timers_wrapping(s) ==
    LET dt == IF s.timer_tick = 0 THEN (s.delay_timer + U8 - 1) % U8 ELSE s.delay_timer
        st == IF s.timer_tick = 0 THEN (s.sound_timer + U8 - 1) % U8 ELSE s.sound_timer
    IN  [s EXCEPT !.delay_timer = dt, !.sound_timer = st,
                  !.timer_tick = (s.timer_tick + 1) % TickDivisor]

\* Bookkeeping that forgets the sub-cycle test and decrements on every cycle.
tick_timers_every_cycle(s) ==
    [s EXCEPT !.delay_timer = IF s.delay_timer > 0 THEN s.delay_timer - 1 ELSE 0,
              !.sound_timer = IF s.sound_timer > 0 THEN s.sound_timer - 1 ELSE 0,
              !.timer_tick = (s.timer_tick + 1) % TickDivisor]

\* if self.timer_tick == 0 { ... } self.timer_tick = (self.timer_tick + 1) % 5
tick_timers(s) ==
    LET dt == IF s.timer_tick = 0 /\ s.delay_timer > 0
              THEN s.delay_timer - 1 ELSE s.delay_timer
        st == IF s.timer_tick = 0 /\ s.sound_timer > 0
              THEN s.sound_timer - 1 ELSE s.sound_timer
    IN  [s EXCEPT !.delay_timer = dt, !.sound_timer = st,
                  !.timer_tick = (s.timer_tick + 1) % TickDivisor]

\* pub fn sound_flag(&self) -> bool { self.sound_timer > 0 }
sound_flag(s) == s.sound_timer > 0

\* The opcode emulate_cycle fetches in state s (the fetch must be in range).
fetch(s) == s.memory[s.pc] * 256 + s.memory[s.pc + 1]

\* A cycle that does not clear draw_flag before it dispatches.
emulate_cycle_keep_flag(s, r) ==
    IF s.pc + 1 >= MemSize THEN Panic(s, "oob_memory")
    ELSE LET s1 == [s EXCEPT !.opcode = fetch(s)]
             s2 == dispatch(s1, r)
         IN  IF Running(s2) THEN tick_timers(s2) ELSE s2

\* One call of emulate_cycle; r is the byte the random source yields if asked.
emulate_cycle(s, r) ==
    IF s.pc + 1 >= MemSize THEN Panic(s, "oob_memory")
    ELSE LET s1 == [s EXCEPT !.opcode = fetch(s), !.draw_flag = FALSE]
             s2 == dispatch(s1, r)
         IN  IF Running(s2) THEN tick_timers(s2) ELSE s2

(***************************************************************************)
(* Construction and program loading                                        *)
(***************************************************************************)
\* A constructor that copies the font to the program area instead of address 0.
new_memory_font_at_start ==
    [a \in 0..(MemSize - 1) |->
        IF a >= ProgramStart /\ a < ProgramStart + FontBytes
        THEN chip8_fontset[(a - ProgramStart) + 1] ELSE 0]

\* Chip8::new(): memory zeroed, then memory[..80].copy_from_slice(&chip8_fontset)
new_memory ==
    [a \in 0..(MemSize - 1) |-> IF a < FontBytes THEN chip8_fontset[a + 1] ELSE 0]

\* file.read(&mut self.memory[0x200..]): the bytes of the file are copied to
\* 0x200 onwards, one after another, as many as fit before the end of memory
RECURSIVE read_into(_, _, _)
read_into(mem, bytes, k) ==
    IF k > Len(bytes) \/ ProgramStart + k - 1 >= MemSize THEN mem
    ELSE read_into([mem EXCEPT ![ProgramStart + k - 1] = bytes[k]], bytes, k + 1)

load_game(mem, bytes) == read_into(mem, bytes, 1)

\* A program image: 16-bit instruction words, stored high byte first.
Op(a, b, c, d) == (a * 4096) + (b * 256) + (c * 16) + d

Image(words) ==
    [k \in 1..(2 * Len(words)) |->
        IF k % 2 = 1 THEN words[(k + 1) \div 2] \div 256 ELSE words[k \div 2] % 256]

NoDelayWatch == [armed |-> FALSE, d |-> 0, t |-> 0, n |-> 0]

NoPrevDraw == [valid |-> FALSE, gfx |-> << >>, vx |-> 0, vy |-> 0, i |-> 0]

NoDumpWatch == [valid |-> FALSE, x |-> 0, i |-> 0, regs |-> << >>]

Init ==
    /\ opcode = 0
    /\ memory = new_memory
    /\ v = [r \in 0..(NumRegs - 1) |-> 0]
    /\ i = 0
    /\ pc = ProgramStart
    /\ gfx = [c \in 0..(GfxSize - 1) |-> 0]
    /\ delay_timer = 0
    /\ sound_timer = 0
    /\ stack = [k \in 0..(StackSize - 1) |-> 0]
    /\ sp = 0
    /\ key = [k \in 0..(NumKeys - 1) |-> 0]
    /\ draw_flag = FALSE
    /\ timer_tick = 0
    /\ status = "constructed"
    /\ overflow_checks \in BOOLEAN
    /\ delay_watch = NoDelayWatch
    /\ prev_draw = NoPrevDraw
    /\ call_trace = << >>
    /\ dump_watch = NoDumpWatch
    /\ canvas = {}   \* main() clears the window to black before the loop

(***************************************************************************)
(* Operations of the VM, as the host loop of main() calls them             *)
(***************************************************************************)
\* emu.load_game(&args[1]) with a file that holds one of the images `roms`
LoadGame(roms) ==
    /\ status = "constructed"
    /\ \E rom \in roms : \E bytes \in {Image(rom)} :
        memory' = load_game(memory, bytes)
    /\ status' = "running"
    /\ UNCHANGED << opcode, v, i, pc, gfx, delay_timer, sound_timer, stack, sp,
                    key, draw_flag, timer_tick, overflow_checks, delay_watch,
                    prev_draw, call_trace, dump_watch, canvas >>

\* Bytes the random source may return (CXNN); one value when it is not asked.
RandBytes == {0, 85, 255}

RandChoices ==
    IF pc + 1 < MemSize /\ TopNibble(fetch(VM)) = 12 THEN RandBytes ELSE {0}

IsSetDelay(op) == TopNibble(op) = 15 /\ FieldNN(op) = 21

IsSetSound(op) == TopNibble(op) = 15 /\ FieldNN(op) = 24

IsDraw(op) == TopNibble(op) = 13

IsWaitKey(op) == TopNibble(op) = 15 /\ FieldNN(op) = 10

\* Observer of the delay timer: armed by a completed FX15 with VX >= 1, it
\* counts that cycle and every later cycle that began with the timer nonzero.
watch_delay(s) ==
    IF ~Running(s) THEN delay_watch
    ELSE IF IsSetDelay(s.opcode) THEN
        IF v[FieldX(s.opcode)] >= 1
        THEN [armed |-> TRUE, d |-> v[FieldX(s.opcode)], t |-> timer_tick, n |-> 1]
        ELSE NoDelayWatch
    ELSE IF delay_watch.armed /\ delay_timer > 0
    THEN [delay_watch EXCEPT !.n = delay_watch.n + 1]
    ELSE delay_watch

\* Observer of draws: the framebuffer and coordinates the cycle just run drew
\* from, when it was a completed DXYN.
watch_draw(s) ==
    IF Running(s) /\ IsDraw(s.opcode)
    THEN [valid |-> TRUE, gfx |-> gfx, vx |-> v[FieldX(s.opcode)],
          vy |-> v[FieldY(s.opcode)], i |-> i]
    ELSE NoPrevDraw

IsCall(op) == TopNibble(op) = 2

\* The words cls_ret executes as a return: it matches on opcode & 0xFF only.
IsReturn(op) == TopNibble(op) = 0 /\ FieldNN(op) = 238

IsBcd(op) == TopNibble(op) = 15 /\ FieldNN(op) = 51

IsRegDump(op) == TopNibble(op) = 15 /\ FieldNN(op) = 85

IsRegLoad(op) == TopNibble(op) = 15 /\ FieldNN(op) = 101

\* Observer of subroutine calls: a completed 2NNN appends the address it was
\* fetched from, a completed return removes the last one.
watch_call(s) ==
    IF ~Running(s) THEN call_trace
    ELSE IF IsCall(s.opcode) THEN Append(call_trace, pc)
    ELSE IF IsReturn(s.opcode) /\ Len(call_trace) > 0
    THEN SubSeq(call_trace, 1, Len(call_trace) - 1)
    ELSE call_trace

\* Observer of register dumps: a completed FX55 records X, I and the
\* registers; the record is dropped by a later cycle that leaves I or one of
\* memory[I..I+X] with another value.
watch_dump(s) ==
    IF ~Running(s) THEN dump_watch
    ELSE IF IsRegDump(s.opcode)
    THEN [valid |-> TRUE, x |-> FieldX(s.opcode), i |-> i, regs |-> v]
    ELSE IF dump_watch.valid
            /\ (\/ s.i # dump_watch.i
                \/ \E k \in 0..dump_watch.x :
                      s.memory[dump_watch.i + k] # memory[dump_watch.i + k])
    THEN NoDumpWatch
    ELSE dump_watch

\* if emu.draw_flag() { clear to black, fill a white rect for every p != 0,
\* present }: the image on the canvas after the cycle that left the VM as s.
\* A cycle that panicked ends the process before the repaint.
repaint(s) ==
    IF Running(s) /\ s.draw_flag
    THEN {c \in 0..(GfxSize - 1) : s.gfx[c] # 0}
    ELSE canvas

\* One pass of the main loop up to the event poll: emu.emulate_cycle(), and
\* with `paints` the repaint that follows it.
LoopPass(paints) ==
    /\ status = "running"
    /\ \E r \in RandChoices :
        LET s == emulate_cycle(VM, r)
        IN  /\ opcode' = s.opcode
            /\ memory' = s.memory
            /\ v' = s.v
            /\ i' = s.i
            /\ pc' = s.pc
            /\ gfx' = s.gfx
            /\ delay_timer' = s.delay_timer
            /\ sound_timer' = s.sound_timer
            /\ stack' = s.stack
            /\ sp' = s.sp
            /\ key' = s.key
            /\ draw_flag' = s.draw_flag
            /\ timer_tick' = s.timer_tick
            /\ status' = s.status
            /\ delay_watch' = watch_delay(s)
            /\ prev_draw' = watch_draw(s)
            /\ call_trace' = watch_call(s)
            /\ dump_watch' = watch_dump(s)
            /\ canvas' = IF paints THEN repaint(s) ELSE canvas
    /\ UNCHANGED overflow_checks

\* emu.emulate_cycle(), the window left out of the picture
EmulateCycle == LoopPass(FALSE)

\* emu.emulate_cycle(); if emu.draw_flag() { ... canvas.present(); }
EmulateAndPaint == LoopPass(TRUE)

\* Bound on the keys the host holds down at once.
MaxPressed == 2

PressedKeys == {k \in 0..(NumKeys - 1) : key[k] = 1}

\* emu.clear_keys()
ClearKeys ==
    /\ status = "running"
    /\ key' = [k \in 0..(NumKeys - 1) |-> 0]
    /\ UNCHANGED << opcode, memory, v, i, pc, gfx, delay_timer, sound_timer, stack,
                    sp, draw_flag, timer_tick, status, overflow_checks,
                    delay_watch, prev_draw, call_trace, dump_watch, canvas >>

\* emu.press_key(k), k a position in the keypad table of main()
PressKey(k) ==
    /\ status = "running"
    /\ Cardinality(PressedKeys \cup {k}) <= MaxPressed
    /\ key' = [key EXCEPT ![k] = 1]
    /\ UNCHANGED << opcode, memory, v, i, pc, gfx, delay_timer, sound_timer, stack,
                    sp, draw_flag, timer_tick, status, overflow_checks,
                    delay_watch, prev_draw, call_trace, dump_watch, canvas >>

(***************************************************************************)
(* Steps of a behaviour that are one call of emulate_cycle: the call either *)
(* completes, and then the sub-cycle counter has moved, or it panics.       *)
(***************************************************************************)
CycleCompleted == status = "running" /\ status' = "running" /\ timer_tick' # timer_tick

CyclePanicked == status = "running" /\ status' # "running"

CycleStep == CycleCompleted \/ CyclePanicked

\* The instruction a cycle begun in this state executes.
AtPc == IF pc + 1 < MemSize THEN fetch(VM) ELSE 0

Fetchable == pc + 1 < MemSize

(***************************************************************************)
(* Key-wait programs: FX0A at 0x200 for each target register; and FX0A     *)
(* stored at address 0 by a register dump and then jumped to.              *)
(***************************************************************************)
KeyWaitRegs == {0, 7, 15}

KeyRoms ==
    { << Op(15, x, 0, 10) >> : x \in KeyWaitRegs }
    \cup { << Op(10, 0, 0, 0), Op(6, 0, 15, 0), Op(6, 1, 0, 10),
              Op(15, 1, 5, 5), Op(1, 0, 0, 0) >> }

\* Keys the host is seen to hold down: the first, the last two and two between.
HostKeySamples == {0, 1, 7, 14, 15}

LoadKeyRom == LoadGame(KeyRoms)

HostKeys == ClearKeys \/ \E k \in HostKeySamples : PressKey(k)

NextKey == LoadKeyRom \/ EmulateCycle \/ HostKeys

SpecKey == Init /\ [][NextKey]_vars

\* Stated by C1: the lowest index among all pressed keys.
LowestPressed == CHOOSE k \in PressedKeys : \A j \in PressedKeys : k <= j

\* C1: when the instruction at PC is FX0A and at least one of the 16 keys is
\* pressed, that cycle sets VX to the lowest pressed key index and leaves PC
\* exactly 2 greater, for every non-empty set of pressed keys.
C1_KeyWaitConsumes ==
    [][ (CycleStep /\ Fetchable /\ IsWaitKey(AtPc) /\ PressedKeys # {})
        => /\ status' = "running"
           /\ v'[FieldX(AtPc)] = LowestPressed
           /\ pc' = pc + 2 ]_vars

\* C2: when the instruction at PC is FX0A and no key is pressed, a cycle leaves
\* PC, every register, I, memory, the stack and the framebuffer unchanged, so
\* the next cycle fetches the same FX0A again.
C2_KeyWaitStalls ==
    [][ (CycleCompleted /\ Fetchable /\ IsWaitKey(AtPc) /\ PressedKeys = {})
        => /\ pc' = pc
           /\ v' = v
           /\ i' = i
           /\ memory' = memory
           /\ stack' = stack
           /\ sp' = sp
           /\ gfx' = gfx
           /\ opcode' = AtPc
           /\ (memory'[pc'] * 256) + memory'[pc' + 1] = opcode' ]_vars

\* C2 witness: three cycles have stalled on the FX0A at 0x200, no key down.
C2_Witness ==
    /\ status = "running"
    /\ pc = ProgramStart
    /\ IsWaitKey(opcode)
    /\ AtPc = opcode
    /\ timer_tick = 3
    /\ PressedKeys = {}

(***************************************************************************)
(* Timer programs: V3 := D, k clear-screens to move the sub-cycle counter, *)
(* FX15, then a jump to itself while the timer runs down.                  *)
(***************************************************************************)
\* Bound on the delay values tried (besides the largest, 255).
MaxDelay == 4

DelayValues == 1..MaxDelay \cup {255}

RECURSIVE Repeat(_, _)
Repeat(word, k) == IF k = 0 THEN << >> ELSE << word >> \o Repeat(word, k - 1)

TimerRom(dval, k) ==
    << Op(6, 3, 0, 0) + dval >> \o Repeat(Op(0, 0, 14, 0), k)
    \o << Op(15, 3, 1, 5), Op(1, 0, 0, 0) + ProgramStart + (2 * (k + 2)) >>

TimerRoms == { TimerRom(dval, k) : dval \in DelayValues, k \in 0..(TickDivisor - 1) }

LoadTimerRom == LoadGame(TimerRoms)

NextTimer == LoadTimerRom \/ EmulateCycle

SpecTimer == Init /\ [][NextTimer]_vars

\* Stated by C3 (amended): the cycle, counted from the FX15 cycle as cycle 1,
\* at whose end a delay timer set to d in a cycle begun with sub-cycle counter
\* t is first 0.
ZeroCycle(d, t) == (TickDivisor * (d - 1)) + 1 + ((TickDivisor - t) % TickDivisor)

\* C3 as stated: a delay timer set to D by FX15 is first 0 after exactly 5 * D
\* cycles, whatever the sub-cycle counter was on the FX15 cycle.
C3_Original ==
    delay_watch.armed =>
        /\ delay_timer = 0 => delay_watch.n = TickDivisor * delay_watch.d
        /\ delay_timer > 0 => delay_watch.n < TickDivisor * delay_watch.d

\* C3 amended: a delay timer set to D (1..255) by FX15 in a cycle begun with
\* sub-cycle counter t, and not written again, is first 0 at the end of cycle
\* 5 * (D - 1) + 1 + ((5 - t) mod 5) counted from the FX15 cycle as cycle 1
\* (5 * D only when t = 1, as few as 5 * D - 4 when t = 0), and not before.
C3_TimerDuration ==
    delay_watch.armed =>
        /\ delay_watch.d \in 1..255 /\ delay_watch.t \in 0..(TickDivisor - 1)
        /\ delay_timer = 0 => delay_watch.n = ZeroCycle(delay_watch.d, delay_watch.t)
        /\ delay_timer > 0 => delay_watch.n < ZeroCycle(delay_watch.d, delay_watch.t)
        /\ delay_timer > 0 =>
              delay_timer = delay_watch.d
                  - Cardinality({j \in 1..delay_watch.n :
                        (delay_watch.t + j - 1) % TickDivisor = 0})

\* C3 witness: a timer set to 3 on a cycle begun with the counter at 0 has
\* run down to 0 in 11 cycles, 4 short of 5 * 3.
C3_Witness ==
    /\ delay_watch.armed
    /\ delay_watch.d = 3
    /\ delay_watch.t = 0
    /\ delay_timer = 0
    /\ delay_watch.n = (TickDivisor * 3) - 4

(***************************************************************************)
(* Arithmetic programs: VX := a, VY := b, then 8XY4 or 8XY5.               *)
(***************************************************************************)
AluRegs == {0, 7, 14, 15}

ByteSamples == {0, 1, 2, 127, 128, 254, 255}

AluRom(x, y, a, b, n) ==
    << Op(6, x, 0, 0) + a, Op(6, y, 0, 0) + b, Op(8, x, y, n) >>

AluRoms ==
    { AluRom(x, y, a, b, n) :
        x \in AluRegs, y \in AluRegs, a \in ByteSamples, b \in ByteSamples,
        n \in {4, 5} }

LoadAluRom == LoadGame(AluRoms)

NextAlu == LoadAluRom \/ EmulateCycle

SpecAlu == Init /\ [][NextAlu]_vars

IsAdd(op) == TopNibble(op) = 8 /\ FieldN(op) = 4

IsSub(op) == TopNibble(op) = 8 /\ FieldN(op) = 5

\* C4: after 8XY4, for every X and Y in 0..15 (X = 0xF and Y = 0xF included),
\* VF is 1 if the unsigned sum of the VX and VY held before the instruction
\* exceeds 255, and 0 otherwise.
C4_AddCarryFlag ==
    [][ (CycleCompleted /\ Fetchable /\ IsAdd(AtPc))
        => v'[FlagReg] = (IF v[FieldX(AtPc)] + v[FieldY(AtPc)] > 255 THEN 1 ELSE 0)
      ]_vars

\* C5: after 8XY4 with X other than 0xF, VX holds (VX + VY) mod 256 of the
\* values held before, for every Y in 0..15, and the cycle completes without
\* a fatal condition even when the sum exceeds 255.
C5_AddResult ==
    [][ (CycleStep /\ Fetchable /\ IsAdd(AtPc) /\ FieldX(AtPc) # FlagReg)
        => /\ status' = "running"
           /\ v'[FieldX(AtPc)] = (v[FieldX(AtPc)] + v[FieldY(AtPc)]) % U8 ]_vars

\* C6: after 8XY5, for every X and Y in 0..15, VF is 0 if VY > VX held before
\* (a borrow) and 1 otherwise, and VX (X not 0xF) holds (VX - VY) mod 256 of
\* the values held before.
C6_Subtract ==
    [][ (CycleCompleted /\ Fetchable /\ IsSub(AtPc))
        => /\ v'[FlagReg] = (IF v[FieldY(AtPc)] > v[FieldX(AtPc)] THEN 0 ELSE 1)
           /\ FieldX(AtPc) # FlagReg
                => v'[FieldX(AtPc)] = (v[FieldX(AtPc)] - v[FieldY(AtPc)] + U8) % U8
      ]_vars

(***************************************************************************)
(* Drawing programs: VX := a, VY := b, I := addr, then DXYN three times    *)
(* running, or DXYN, VX += 2, DXYN.  The sprite is the font (addr 0), the  *)
(* program's own bytes (0x200), zeroes (0x300) or the last six bytes of    *)
(* memory (4090).                                                          *)
(***************************************************************************)
DrawRegPairs == { << 0, 1 >>, << 15, 1 >>, << 1, 15 >> }

DrawCoords == {0, 255}

SpriteAddrs == {0, 512, 768, 4090}

SpriteHeights == 0..15

DrawRom(x, y, a, b, addr, n, shifted) ==
    << Op(6, x, 0, 0) + a, Op(6, y, 0, 0) + b, Op(10, 0, 0, 0) + addr,
       Op(13, x, y, n),
       IF shifted THEN Op(7, x, 0, 2) ELSE Op(13, x, y, n),
       Op(13, x, y, n) >>

DrawRoms ==
    { DrawRom(xy[1], xy[2], a, b, addr, n, shifted) :
        xy \in DrawRegPairs, a \in DrawCoords, b \in DrawCoords,
        addr \in SpriteAddrs, n \in SpriteHeights, shifted \in BOOLEAN }

LoadDrawRom == LoadGame(DrawRoms)

NextDraw == LoadDrawRom \/ EmulateCycle

SpecDraw == Init /\ [][NextDraw]_vars

Blank == [c \in 0..(GfxSize - 1) |-> 0]

\* The rows and columns of the sprite DXYN at PC reads whose bit is set.
SpriteBits ==
    { rc \in (0..(FieldN(AtPc) - 1)) \X (0..7) :
        Bit(memory[i + rc[1]], 7 - rc[2]) = 1 }

\* Stated by C9: the framebuffer cell of sprite bit (row, col) for the draw at PC.
CellOf(rc) ==
    (64 * ((v[FieldY(AtPc)] + rc[1]) % 32)) + ((v[FieldX(AtPc)] + rc[2]) % 64)

\* This step is a completed draw that repeats the draw of the cycle before:
\* same opcode, same coordinates, same I (memory cannot change in between).
RepeatsDraw ==
    /\ CycleCompleted /\ Fetchable /\ IsDraw(AtPc)
    /\ prev_draw.valid
    /\ opcode = AtPc
    /\ prev_draw.vx = v[FieldX(AtPc)]
    /\ prev_draw.vy = v[FieldY(AtPc)]
    /\ prev_draw.i = i

\* C7 as stated: the same DXYN twice in succession at the same coordinates
\* restores the framebuffer and leaves VF = 1, for every N in 0..15 and every
\* sprite content.
C7_Original ==
    [][ RepeatsDraw => (gfx' = prev_draw.gfx /\ v'[FlagReg] = 1) ]_vars

\* C7 amended: the same DXYN twice in succession at the same coordinates
\* restores the framebuffer; VF after the second draw is 1 when at least one
\* cell under a set sprite bit was unset before the first draw, and 0 when
\* there is none (N = 0, N zero bytes, or every such cell was set before).
C7_DrawSelfInverse ==
    [][ RepeatsDraw
        => /\ gfx' = prev_draw.gfx
           /\ v'[FlagReg] =
                 (IF \E rc \in SpriteBits : prev_draw.gfx[CellOf(rc)] = 0
                  THEN 1 ELSE 0) ]_vars

\* C7 witness: the second of two identical draws has erased what the first
\* drew on a blank screen, with a collision.
C7_Witness ==
    /\ status = "running"
    /\ pc = ProgramStart + 10
    /\ IsDraw(opcode)
    /\ prev_draw.valid
    /\ \E c \in 0..(GfxSize - 1) : prev_draw.gfx[c] = 1
    /\ gfx = Blank
    /\ v[FlagReg] = 1

\* C8: after DXYN, VF is 1 if at least one framebuffer pixel was set before
\* the draw and is unset after it and 0 otherwise; it is overwritten on every
\* draw, to 0 as well, whichever registers X and Y name.
C8_DrawCollisionFlag ==
    [][ (CycleCompleted /\ Fetchable /\ IsDraw(AtPc))
        => v'[FlagReg] =
              (IF \E c \in 0..(GfxSize - 1) : gfx[c] = 1 /\ gfx'[c] = 0
               THEN 1 ELSE 0) ]_vars

\* C8 witness: the third draw of the same sprite found the screen blank again
\* and overwrote the VF = 1 of the second draw with 0.
C8_Witness ==
    /\ status = "running"
    /\ pc = ProgramStart + 12
    /\ IsDraw(opcode)
    /\ prev_draw.valid /\ prev_draw.gfx = Blank
    /\ gfx # Blank
    /\ v[FlagReg] = 0

\* C9: for every VX, VY in 0..255 and every N, DXYN XORs sprite bit
\* (row, col) into the cell at column (VX + col) mod 64 of row
\* (VY + row) mod 32, one cell per bit, changes no other cell, never indexes
\* the framebuffer outside 0..2047, and every cell stays 0 or 1.
C9_DrawWraps ==
    [][ (CycleStep /\ Fetchable /\ IsDraw(AtPc))
        => /\ status' # "oob_gfx"
           /\ CycleCompleted =>
                LET cells == { CellOf(rc) : rc \in SpriteBits }
                IN  /\ Cardinality(cells) = Cardinality(SpriteBits)
                    /\ \A c \in 0..(GfxSize - 1) :
                          /\ gfx'[c] \in {0, 1}
                          /\ gfx'[c] = (IF c \in cells THEN 1 - gfx[c] ELSE gfx[c])
      ]_vars

\* C9 witness: a sprite drawn at (255, 255) has lit the corner cell (row 31,
\* column 63) and wrapped into row 0 and into column 0.
C9_Witness ==
    /\ status = "running"
    /\ draw_flag
    /\ prev_draw.valid /\ prev_draw.vx = 255 /\ prev_draw.vy = 255
    /\ gfx[GfxSize - 1] = 1
    /\ \E c \in 0..(GfxWidth - 1) : gfx[c] = 1
    /\ \E r \in 0..(GfxHeight - 1) : gfx[GfxWidth * r] = 1

\* C10: after any cycle the redraw flag is true if and only if the instruction
\* the cycle executed was a DXYN, so a true flag does not outlive the next
\* cycle unless that cycle draws too.
C10_RedrawFlag ==
    [][ (CycleCompleted /\ Fetchable) => (draw_flag' <=> IsDraw(AtPc)) ]_vars

\* C10 witness: the cycle after a draw was 7XNN and the flag is false again
\* while the drawn pixels are still on the screen.
C10_Witness ==
    /\ status = "running"
    /\ TopNibble(opcode) = 7
    /\ gfx # Blank
    /\ ~draw_flag

(***************************************************************************)
(* Control-flow programs: V0 := a, V1 := 1, one instruction of each family *)
(* at 0x204, a jump to itself at 0x206 and at 0x208, a return at 0x20A;    *)
(* the host presses and releases keys while they run.  The last three     *)
(* words are undocumented ones that cls_ret, er and ner execute all the    *)
(* same, since they do not decode every nibble.                            *)
(***************************************************************************)
FlowWords ==
    { Op(0, 0, 14, 0), Op(1, 2, 0, 8), Op(2, 2, 0, 10), Op(3, 0, 0, 1),
      Op(4, 0, 0, 1), Op(5, 0, 1, 0), Op(6, 2, 3, 3), Op(7, 0, 0, 1),
      Op(8, 0, 1, 4), Op(9, 0, 1, 0), Op(10, 1, 2, 3), Op(11, 2, 0, 7),
      Op(12, 1, 0, 15), Op(13, 0, 1, 1), Op(14, 0, 9, 14), Op(14, 0, 10, 1),
      Op(15, 0, 0, 7), Op(15, 0, 0, 10), Op(15, 0, 1, 5), Op(15, 0, 1, 8),
      Op(15, 0, 1, 14), Op(15, 0, 2, 9), Op(15, 0, 3, 3), Op(15, 0, 5, 5),
      Op(15, 0, 6, 5),
      Op(0, 1, 14, 0), Op(5, 0, 1, 1), Op(9, 0, 1, 1) }

FlowValues == {0, 1}

FlowRom(a, word) ==
    << Op(6, 0, 0, 0) + a, Op(6, 1, 0, 1), word,
       Op(1, 2, 0, 6), Op(1, 2, 0, 8), Op(0, 0, 14, 14) >>

FlowRoms == { FlowRom(a, word) : a \in FlowValues, word \in FlowWords }

LoadFlowRom == LoadGame(FlowRoms)

NextFlow == LoadFlowRom \/ EmulateCycle \/ HostKeys

SpecFlow == Init /\ [][NextFlow]_vars

\* Stated by C11: the instruction at PC is a jump (1NNN, BNNN).
JumpAtPc == TopNibble(AtPc) \in {1, 11}

\* Stated by C11: the instruction at PC is a conditional skip and its
\* condition holds in this state.
SkipHoldsAtPc ==
    LET f == TopNibble(AtPc)
        vx == v[FieldX(AtPc)]
        vy == v[FieldY(AtPc)]
    IN  \/ f = 3 /\ vx = FieldNN(AtPc)
        \/ f = 4 /\ vx # FieldNN(AtPc)
        \/ f = 5 /\ vx = vy
        \/ f = 9 /\ vx # vy
        \/ f = 14 /\ FieldNN(AtPc) = 158 /\ vx < 16 /\ key[vx] = 1
        \/ f = 14 /\ FieldNN(AtPc) = 161 /\ vx < 16 /\ key[vx] # 1

\* Stated by C11 (amended): the instruction at PC is FX0A and finds no key to
\* store, none of keys 0..14 being down.
KeyWaitFindsNone == IsWaitKey(AtPc) /\ \A k \in 0..14 : key[k] # 1

\* C11 as stated: every completed cycle leaves PC = PC + 2, unless the
\* instruction is a jump, a call, a return or a conditional skip whose
\* condition holds, and such a skip leaves exactly PC + 4.
C11_Original ==
    [][ (CycleCompleted /\ Fetchable)
        => /\ ~(JumpAtPc \/ IsCall(AtPc) \/ IsReturn(AtPc) \/ SkipHoldsAtPc)
                => pc' = pc + 2
           /\ SkipHoldsAtPc => pc' = pc + 4 ]_vars

\* C11 amended: every completed cycle leaves PC = PC + 2, unless the
\* instruction is a jump, a call, a return, a conditional skip whose condition
\* holds (exactly PC + 4), or an FX0A that finds none of keys 0..14 down
\* (PC unchanged).
C11_PcStep ==
    [][ (CycleCompleted /\ Fetchable)
        => /\ ~(JumpAtPc \/ IsCall(AtPc) \/ IsReturn(AtPc) \/ SkipHoldsAtPc
                \/ KeyWaitFindsNone)
                => pc' = pc + 2
           /\ SkipHoldsAtPc => pc' = pc + 4
           /\ KeyWaitFindsNone => pc' = pc ]_vars

\* C11 witness: EX9E at 0x204 found key 1 down and skipped to 0x208, two
\* loads having stepped PC by 2 each before it.
C11_Witness ==
    /\ status = "running"
    /\ opcode = Op(14, 0, 9, 14)
    /\ v[0] = 1 /\ key[1] = 1
    /\ pc = ProgramStart + 8
    /\ timer_tick = 3

(***************************************************************************)
(* Calling programs: subroutine k, at 0x200 + 4k, calls subroutine k + 1   *)
(* and returns; the last one only returns.  Nesting depths 0 to 17, and a  *)
(* subroutine at 0x200 that calls itself.                                  *)
(***************************************************************************)
CallDepths == 0..(StackSize + 1)

CallRom(d) ==
    [n \in 1..((2 * d) + 1) |->
        IF n % 2 = 1 /\ n < (2 * d) + 1
        THEN Op(2, 0, 0, 0) + ProgramStart + (2 * (n + 1))
        ELSE Op(0, 0, 14, 14)]

CallRoms == { CallRom(d) : d \in CallDepths } \cup { << Op(2, 2, 0, 0) >> }

LoadCallRom == LoadGame(CallRoms)

NextCall == LoadCallRom \/ EmulateCycle

SpecCall == Init /\ [][NextCall]_vars

\* C12: 2NNN stores the address of the call instruction in the stack slot at
\* the stack pointer, increments the stack pointer and sets PC = NNN; a return
\* decrements the stack pointer and sets PC to the address of the latest call
\* not yet returned from + 2; calls nested up to depth 16 complete, and the
\* stack pointer always equals the number of calls not yet returned from, so
\* it is back at its first value after as many returns as calls.
C12_CallReturn ==
    [][ (CycleStep /\ Fetchable)
        => /\ (IsCall(AtPc) /\ Len(call_trace) < 16) => status' = "running"
           /\ (CycleCompleted /\ IsCall(AtPc))
                => /\ stack'[sp] = pc
                   /\ sp' = sp + 1
                   /\ pc' = FieldNNN(AtPc)
           /\ (CycleCompleted /\ IsReturn(AtPc))
                => /\ Len(call_trace) > 0
                   /\ sp' = sp - 1
                   /\ pc' = call_trace[Len(call_trace)] + 2
           /\ CycleCompleted => sp' = Len(call_trace') ]_vars

\* C12 witness: sixteen nested calls have been unwound by sixteen returns, the
\* last of them back to 0x202 with the stack pointer at 0 again.
C12_Witness ==
    /\ status = "running"
    /\ memory[ProgramStart + (4 * StackSize)] = 0
    /\ memory[ProgramStart + (4 * StackSize) + 1] = 238
    /\ IsReturn(opcode)
    /\ pc = ProgramStart + 2
    /\ sp = 0
    /\ call_trace = << >>

(***************************************************************************)
(* Decoding programs: V0 := 0 or 16, then one instruction word: at least   *)
(* one word of every documented pattern, and words of every family that    *)
(* match none.  Whatever follows in memory is executed next.               *)
(***************************************************************************)
DocumentedWords ==
    { Op(0, 0, 14, 0), Op(0, 0, 14, 14), Op(1, 15, 15, 15), Op(2, 2, 0, 0),
      Op(3, 0, 0, 0), Op(4, 0, 0, 0), Op(5, 0, 1, 0), Op(6, 1, 1, 1),
      Op(7, 0, 0, 1), Op(8, 0, 1, 0), Op(8, 0, 1, 1), Op(8, 0, 1, 2),
      Op(8, 0, 1, 3), Op(8, 0, 1, 4), Op(8, 0, 1, 5), Op(8, 0, 1, 6),
      Op(8, 1, 0, 7), Op(8, 0, 1, 14), Op(9, 0, 1, 0), Op(10, 0, 0, 0),
      Op(11, 2, 1, 0), Op(12, 0, 15, 15), Op(13, 0, 0, 1), Op(14, 0, 9, 14),
      Op(14, 0, 10, 1), Op(15, 0, 0, 7), Op(15, 0, 0, 10), Op(15, 0, 1, 5),
      Op(15, 0, 1, 8), Op(15, 0, 1, 14), Op(15, 0, 2, 9), Op(15, 0, 3, 3),
      Op(15, 0, 5, 5), Op(15, 0, 6, 5) }

UndocumentedWords ==
    { Op(0, 0, 0, 0), Op(0, 0, 14, 1), Op(0, 1, 14, 0), Op(0, 15, 14, 0),
      Op(0, 1, 14, 14), Op(0, 0, 15, 15),
      Op(5, 0, 1, 1), Op(5, 0, 0, 15),
      Op(8, 0, 1, 8), Op(8, 0, 1, 9), Op(8, 0, 1, 13), Op(8, 0, 1, 15),
      Op(9, 0, 1, 1), Op(9, 0, 0, 15),
      Op(14, 0, 0, 0), Op(14, 0, 9, 15), Op(14, 0, 10, 0), Op(14, 0, 15, 15),
      Op(15, 0, 0, 0), Op(15, 0, 0, 8), Op(15, 0, 1, 6), Op(15, 0, 3, 4),
      Op(15, 0, 5, 6), Op(15, 0, 6, 6), Op(15, 0, 15, 15) }

DecodeValues == {0, 16}

DecodeRom(a, word) == << Op(6, 0, 0, 0) + a, word >>

DecodeRoms ==
    { DecodeRom(a, word) :
        a \in DecodeValues, word \in DocumentedWords \cup UndocumentedWords }

LoadDecodeRom == LoadGame(DecodeRoms)

NextDecode == LoadDecodeRom \/ EmulateCycle

SpecDecode == Init /\ [][NextDecode]_vars

\* Stated by C13: the word matches one of the documented patterns.
Documented(op) ==
    LET f == TopNibble(op)
    IN  \/ f \in {1, 2, 3, 4, 6, 7, 10, 11, 12, 13}
        \/ f = 0 /\ op \in {224, 238}
        \/ f = 5 /\ FieldN(op) = 0
        \/ f = 8 /\ FieldN(op) \in {0, 1, 2, 3, 4, 5, 6, 7, 14}
        \/ f = 9 /\ FieldN(op) = 0
        \/ f = 14 /\ FieldNN(op) \in {158, 161}
        \/ f = 15 /\ FieldNN(op) \in {7, 10, 21, 24, 30, 41, 51, 85, 101}

\* C13: a cycle that fetches a word matching none of the documented patterns
\* ends in the fatal state; it is never executed as a documented instruction.
C13_UnrecognizedFatal ==
    [][ (CycleStep /\ Fetchable /\ ~Documented(AtPc)) => status' # "running" ]_vars

\* C14: a cycle aborts only because of an unrecognized opcode, a return on an
\* empty stack, or a draw / BCD / register-dump / register-load address past
\* the end of memory; the register, key, call-stack and instruction-fetch
\* indices are always in range (and nothing else aborts a cycle).  Any abort
\* on a word of no documented pattern counts as the unrecognized opcode.
C14_FatalConditions ==
    [][ CyclePanicked
        => \/ status' = "unhandled_opcode"
           \/ Fetchable /\ ~Documented(AtPc)
           \/ status' = "stack_underflow"
           \/ /\ status' = "oob_memory"
              /\ Fetchable
              /\ IsDraw(AtPc) \/ IsBcd(AtPc) \/ IsRegDump(AtPc) \/ IsRegLoad(AtPc)
      ]_vars

\* C15: in every state reachable by construction, program loading and cycles,
\* memory 0x000..0x04F holds the built-in font table unchanged.
C15_FontFixed ==
    \A a \in 0..79 : memory[a] = chip8_fontset[a + 1]

SkipRegPairs == { << 0, 1 >>, << 15, 7 >>, << 7, 7 >> }

SkipValues == {0, 1, 255}

SkipWords(x, y) ==
    { Op(3, x, 0, 0) + nn : nn \in SkipValues }
    \cup { Op(4, x, 0, 0) + nn : nn \in SkipValues }
    \cup { Op(5, x, y, 0), Op(9, x, y, 0) }

SkipRom(x, y, a, b, word) == << Op(6, x, 0, 0) + a, Op(6, y, 0, 0) + b, word >>

SkipRoms ==
    { SkipRom(xy[1], xy[2], a, b, word) :
        xy \in SkipRegPairs, a \in SkipValues, b \in SkipValues,
        word \in UNION { SkipWords(p[1], p[2]) : p \in SkipRegPairs } }

LoadSkipRom == LoadGame(SkipRoms)

NextSkip == LoadSkipRom \/ EmulateCycle

SpecSkip == Init /\ [][NextSkip]_vars

\* Stated by C17: the instruction at PC is 3XNN, 4XNN, 5XY0 or 9XY0.
SkipAtPc ==
    \/ TopNibble(AtPc) \in {3, 4}
    \/ TopNibble(AtPc) \in {5, 9} /\ FieldN(AtPc) = 0

\* Stated by C17: the condition on which the skip at PC leaves PC + 4.
SkipCondition ==
    CASE TopNibble(AtPc) = 3 -> v[FieldX(AtPc)] = FieldNN(AtPc)
      [] TopNibble(AtPc) = 4 -> v[FieldX(AtPc)] # FieldNN(AtPc)
      [] TopNibble(AtPc) = 5 -> v[FieldX(AtPc)] = v[FieldY(AtPc)]
      [] TopNibble(AtPc) = 9 -> v[FieldX(AtPc)] # v[FieldY(AtPc)]
      [] OTHER -> FALSE

\* C17: 3XNN leaves PC + 4 when VX = NN and PC + 2 otherwise; 4XNN leaves
\* PC + 4 when VX != NN and PC + 2 otherwise; 5XY0 leaves PC + 4 when VX = VY
\* and PC + 2 otherwise; 9XY0 leaves PC + 4 when VX != VY and PC + 2
\* otherwise; none of the four changes a register, I, memory, the stack or
\* the framebuffer.
C17_ConditionalSkips ==
    [][ (CycleStep /\ Fetchable /\ SkipAtPc)
        => /\ status' = "running"
           /\ pc' = pc + (IF SkipCondition THEN 4 ELSE 2)
           /\ v' = v
           /\ i' = i
           /\ memory' = memory
           /\ stack' = stack /\ sp' = sp
           /\ gfx' = gfx ]_vars

\* C17 witness: 4F00 at 0x204 found VF = 255, not 0, and skipped to 0x208.
C17_Witness ==
    /\ status = "running"
    /\ opcode = Op(4, 15, 0, 0)
    /\ v[15] = 255
    /\ pc = ProgramStart + 8

(***************************************************************************)
(* BCD programs: VX := every byte value, I := an address in the middle of  *)
(* memory, the last one with I + 2 in memory, or one past it; then FX33.   *)
(***************************************************************************)
BcdRegs == {0, 15}

BcdAddrs == {768, 4093, 4094}

BcdRom(x, val, addr) ==
    << Op(6, x, 0, 0) + val, Op(10, 0, 0, 0) + addr, Op(15, x, 3, 3) >>

BcdRoms ==
    { BcdRom(x, val, addr) : x \in BcdRegs, val \in 0..(U8 - 1), addr \in BcdAddrs }

LoadBcdRom == LoadGame(BcdRoms)

NextBcd == LoadBcdRom \/ EmulateCycle

SpecBcd == Init /\ [][NextBcd]_vars

\* C18: FX33 with I + 2 <= 4095 completes and leaves in memory[I],
\* memory[I+1], memory[I+2] the hundreds, tens and ones decimal digits of VX
\* (each in 0..9, 100 * h + 10 * t + o = VX), for every VX in 0..255; no
\* other memory cell, no register and not I is changed.
C18_Bcd ==
    [][ (CycleStep /\ Fetchable /\ IsBcd(AtPc) /\ i + 2 <= 4095)
        => /\ status' = "running"
           /\ memory'[i] \in 0..9 /\ memory'[i + 1] \in 0..9 /\ memory'[i + 2] \in 0..9
           /\ (100 * memory'[i]) + (10 * memory'[i + 1]) + memory'[i + 2]
                 = v[FieldX(AtPc)]
           /\ memory' = [memory EXCEPT ![i] = memory'[i], ![i + 1] = memory'[i + 1],
                                       ![i + 2] = memory'[i + 2]]
           /\ v' = v
           /\ i' = i ]_vars

\* C18 witness: VX = 193 has been stored as 1, 9, 3 in the last three bytes
\* of memory.
C18_Witness ==
    /\ status = "running"
    /\ IsBcd(opcode)
    /\ v[FieldX(opcode)] = 193
    /\ i = 4093
    /\ memory[4093] = 1 /\ memory[4094] = 9 /\ memory[4095] = 3

(***************************************************************************)
(* Tick programs: V3 := d, V4 := e, k clear-screens to move the sub-cycle  *)
(* counter, FX15, FX18, then an FX0A that stalls for good (no key is ever  *)
(* pressed) while the timers run down.                                     *)
(***************************************************************************)
TickValues == {0, 1, 3}

TickRom(d, e, k) ==
    << Op(6, 3, 0, 0) + d, Op(6, 4, 0, 0) + e >> \o Repeat(Op(0, 0, 14, 0), k)
    \o << Op(15, 3, 1, 5), Op(15, 4, 1, 8), Op(15, 0, 0, 10) >>

TickRoms ==
    { TickRom(d, e, k) : d \in TickValues, e \in TickValues, k \in 0..(TickDivisor - 1) }

LoadTickRom == LoadGame(TickRoms)

NextTick == LoadTickRom \/ EmulateCycle

SpecTick == Init /\ [][NextTick]_vars

\* C19: the sub-cycle counter runs 0,1,2,3,4 cyclically, one step per cycle,
\* cycles stalled in FX0A included; on the cycles where it is 0 the delay and
\* the sound timer (as the instruction of the cycle left them) each decrease
\* by 1 if nonzero, on the others the bookkeeping leaves them alone; neither
\* wraps below 0; the sound flag is true exactly when the sound timer is
\* nonzero.
C19_TickSchedule ==
    [][ (CycleCompleted /\ Fetchable)
        => LET d0 == IF IsSetDelay(AtPc) THEN v[FieldX(AtPc)] ELSE delay_timer
               s0 == IF IsSetSound(AtPc) THEN v[FieldX(AtPc)] ELSE sound_timer
           IN  /\ timer_tick \in 0..4
               /\ timer_tick' = (IF timer_tick = 4 THEN 0 ELSE timer_tick + 1)
               /\ delay_timer' = (IF timer_tick = 0 /\ d0 > 0 THEN d0 - 1 ELSE d0)
               /\ sound_timer' = (IF timer_tick = 0 /\ s0 > 0 THEN s0 - 1 ELSE s0)
               /\ delay_timer' \in 0..255 /\ sound_timer' \in 0..255
               /\ delay_timer' <= d0 /\ sound_timer' <= s0
               /\ sound_flag(VM) <=> sound_timer # 0
               /\ sound_flag(VM)' <=> sound_timer' # 0 ]_vars

\* C19 witness: a cycle stalled in FX0A began with the counter at 0 and took
\* the sound timer from 3 to 2, the delay timer staying at 0.
C19_Witness ==
    /\ status = "running"
    /\ IsWaitKey(opcode)
    /\ AtPc = opcode
    /\ timer_tick = 1
    /\ delay_timer = 0
    /\ sound_timer = 2
    /\ sound_flag(VM)

(***************************************************************************)
(* Register programs: V0 := a, V1 := 1, VF := 9, I := addr, FX55, then     *)
(* V0, V1 and VF are overwritten, one more instruction runs (harmless, or  *)
(* moving I, or storing BCD digits at I), and FX65 loads the registers.    *)
(***************************************************************************)
DumpRegs == {0, 1, 15}

DumpValues == {0, 255}

DumpAddrs == {768, 4080, 4094}

DumpMidWords == { Op(7, 0, 0, 1), Op(10, 3, 0, 1), Op(15, 0, 3, 3) }

DumpRom(x, a, addr, mid) ==
    << Op(6, 0, 0, 0) + a, Op(6, 1, 0, 1), Op(6, 15, 0, 9),
       Op(10, 0, 0, 0) + addr, Op(15, x, 5, 5),
       Op(6, 0, 5, 5), Op(6, 1, 10, 10), Op(6, 15, 0, 1),
       mid, Op(15, x, 6, 5) >>

DumpRoms ==
    { DumpRom(x, a, addr, mid) :
        x \in DumpRegs, a \in DumpValues, addr \in DumpAddrs, mid \in DumpMidWords }

LoadDumpRom == LoadGame(DumpRoms)

NextDump == LoadDumpRom \/ EmulateCycle

SpecDump == Init /\ [][NextDump]_vars

\* C20: FX55 writes V0..VX to memory[I..I+X] and changes no other memory
\* cell, no register and not I; FX65 reads memory[I..I+X] into V0..VX and
\* changes no other register, no memory and not I; and an FX65 with the same
\* X as the latest FX55, with I and memory[I..I+X] still as that FX55 left
\* them, restores V0..VX to the values they had at the FX55.
C20_DumpLoadRoundTrip ==
    [][ (CycleCompleted /\ Fetchable)
        => LET x == FieldX(AtPc)
           IN  /\ IsRegDump(AtPc)
                    => /\ memory' = [a \in 0..4095 |->
                                        IF a >= i /\ a <= i + x THEN v[a - i]
                                        ELSE memory[a]]
                       /\ v' = v
                       /\ i' = i
               /\ IsRegLoad(AtPc)
                    => /\ \A k \in 0..15 :
                             v'[k] = (IF k <= x THEN memory[i + k] ELSE v[k])
                       /\ memory' = memory
                       /\ i' = i
               /\ (IsRegLoad(AtPc) /\ dump_watch.valid /\ dump_watch.x = x)
                    => \A k \in 0..x : v'[k] = dump_watch.regs[k] ]_vars

\* C20 witness: FF65 has brought V0 = 255, V1 = 1 and VF = 9 back from
\* memory[4080..4095], where FF55 had stored them before they were overwritten.
C20_Witness ==
    /\ status = "running"
    /\ IsRegLoad(opcode)
    /\ FieldX(opcode) = 15
    /\ dump_watch.valid /\ dump_watch.x = 15 /\ dump_watch.i = 4080
    /\ i = 4080
    /\ v[0] = 255 /\ v[1] = 1 /\ v[15] = 9

(***************************************************************************)
(* Draw-then-clear programs, run with the window in the picture: V0 = a,   *)
(* I = addr, DXYN at (V0, V1 = 0), then one of 00E0, the undocumented 01E0 *)
(* (dispatched as 00E0), the same DXYN again, or a register load; then a   *)
(* jump to itself.                                                         *)
(***************************************************************************)
ClearRom(a, addr, n, word) ==
    << Op(6, 0, 0, 0) + a, Op(10, 0, 0, 0) + addr, Op(13, 0, 1, n), word,
       Op(1, 2, 0, 8) >>

ClearRoms ==
    UNION { { ClearRom(a, addr, n, word) :
                a \in {0, 60}, addr \in {0, 5},
                word \in {Op(0, 0, 14, 0), Op(0, 1, 14, 0), Op(13, 0, 1, n),
                          Op(6, 1, 0, 0)} } :
            n \in {0, 1, 5} }

LoadClearRom == LoadGame(ClearRoms)

NextClear == LoadClearRom \/ EmulateAndPaint

SpecClear == Init /\ [][NextClear]_vars

\* C21: a completed cycle that changes the framebuffer leaves draw_flag true,
\* and after every completed cycle and the repaint that follows it the cells
\* painted white in the window are exactly the nonzero cells of the
\* framebuffer.
C21_DisplayInSync ==
    [][ CycleCompleted
        => /\ (gfx' # gfx => draw_flag')
           /\ canvas' = {c \in 0..(GfxSize - 1) : gfx'[c] # 0} ]_vars

=============================================================================
